---- MODULE Spec2Model ----
(***************************************************************************)
(* ContactBook (src/2001_Andresit1524_v1.py): an in-memory list of         *)
(* contacts with add / del_email / find / list_contacts and a JSON         *)
(* snapshot written by update_json.                                        *)
(*                                                                         *)
(* A Python str is modelled as a sequence of one-character strings, so     *)
(* that lower(), the substring test, endswith() and the ordering of str    *)
(* are computed character by character.                                    *)
(***************************************************************************)
EXTENDS Integers, Sequences, FiniteSets, TLC

VARIABLES contacts, snapshot, wrote, lastOp, lastArg, lastRet, lastOut, prevList

vars == <<contacts, snapshot, wrote, lastOp, lastArg, lastRet, lastOut, prevList>>

\* Largest number of contacts the book is allowed to hold in the model.
MaxContacts == 3

----------------------------------------------------------------------------
(* Python built-ins on str and int                                         *)

UpperLetters ==
  <<"A","B","C","D","E","F","G","H","I","J","K","L","M",
    "N","O","P","Q","R","S","T","U","V","W","X","Y","Z">>

LowerLetters ==
  <<"a","b","c","d","e","f","g","h","i","j","k","l","m",
    "n","o","p","q","r","s","t","u","v","w","x","y","z">>

\* The printable ASCII characters in code-point order, from " " (32) on;
\* the three characters a TLA+ string cannot hold are written by name.
Printable ==
  <<" ","!","dquote","#","$","%","&","'","(",")","*","+",",","-",".","/",
    "0","1","2","3","4","5","6","7","8","9",":",";","<","=",">","?",
    "@","A","B","C","D","E","F","G","H","I","J","K","L","M","N","O",
    "P","Q","R","S","T","U","V","W","X","Y","Z","[","backslash","]","^","_",
    "backtick","a","b","c","d","e","f","g","h","i","j","k","l","m","n","o",
    "p","q","r","s","t","u","v","w","x","y","z","{","|","}","~">>

Chars == {Printable[i] : i \in 1..Len(Printable)}

\* ord(c)
OrdTable == [c \in Chars |-> 31 + (CHOOSE i \in 1..Len(Printable) : Printable[i] = c)]

Ord(c) == OrdTable[c]

\* c.lower() for one character
LowerTable ==
  [c \in Chars |->
     IF \E i \in 1..26 : UpperLetters[i] = c
     THEN LowerLetters[CHOOSE i \in 1..26 : UpperLetters[i] = c]
     ELSE c]

\* s.lower()
Lower(s) == [i \in 1..Len(s) |-> LowerTable[s[i]]]

\* s < t on str: the first differing character decides, a proper prefix is smaller
StrLess(s, t) ==
  \E k \in 1..Len(t) :
     /\ \A i \in 1..(k-1) : i <= Len(s) /\ s[i] = t[i]
     /\ \/ k = Len(s) + 1
        \/ k <= Len(s) /\ Ord(s[k]) < Ord(t[k])

\* t in s
Contains(t, s) ==
  \E i \in 0..(Len(s) - Len(t)) : SubSeq(s, i + 1, i + Len(t)) = t

\* s.endswith(suf)
EndsWith(s, suf) ==
  /\ Len(suf) <= Len(s)
  /\ SubSeq(s, Len(s) - Len(suf) + 1, Len(s)) = suf

Digits == <<"0","1","2","3","4","5","6","7","8","9">>

RECURSIVE Str(_)
\* str(n) for a non-negative int
Str(n) == IF n < 10 THEN <<Digits[n + 1]>>
          ELSE Str(n \div 10) \o <<Digits[(n % 10) + 1]>>

----------------------------------------------------------------------------
(* Arguments the operations are called with                                *)

Nombres   == { <<"a">>, <<"B">> }
Apellidos == { <<"B">>, <<"a","b">> }
Emails    == { <<"a","@","x">>, <<"A","@","X">>,
               <<"b","@","y","x">>, <<"a",".","b","@","y">> }
Tels      == { 40 }
Textos    == { <<"a">>, <<"B">>, <<".","B","@">>, <<"@","y">> }

\* The optional argument of list_contacts: <<>> is None, <<d>> is the str d.
None    == <<>>
Domains == { None, << <<>> >>, << <<"x">> >>, << <<"X">> >>, << <<"y">> >> }

----------------------------------------------------------------------------
(* class Contact                                                           *)

\* Variant: the email is stored as given, not lowercased
Contact_email_as_given(nombre, apellido, email, tel) ==
  [nombre |-> Lower(nombre), apellido |-> Lower(apellido),
   email |-> email, tel |-> tel]

Contact(nombre, apellido, email, tel) ==
  [nombre |-> Lower(nombre), apellido |-> Lower(apellido),
   email |-> Lower(email), tel |-> tel]

----------------------------------------------------------------------------
(* class ContactBook                                                       *)

\* list.pop(): the list without its last element
Pop(s) == SubSeq(s, 1, Len(s) - 1)

\* Variant: only neighbouring contacts are compared
check_emails_neighbours(cs) ==
  \E i \in 1..(Len(cs) - 1) : cs[i].email = cs[i + 1].email

\* len(emails) != len(set(emails))
check_emails(cs) ==
  Len(cs) # Cardinality({cs[i].email : i \in 1..Len(cs)})

\* (c.apellido, c.nombre) < (d.apellido, d.nombre) on tuples of str
KeyLess(c, d) ==
  \/ StrLess(c.apellido, d.apellido)
  \/ c.apellido = d.apellido /\ StrLess(c.nombre, d.nombre)

\* Variant: x is put in front of the elements with the same key
Insert_before_ties(s, x) ==
  LET after == {i \in 1..Len(s) : ~KeyLess(s[i], x)}
      p     == IF after = {} THEN Len(s) + 1
               ELSE CHOOSE i \in after : \A j \in after : i <= j
  IN  SubSeq(s, 1, p - 1) \o <<x>> \o SubSeq(s, p, Len(s))

\* x put into the sorted list s behind every element whose key is not greater
Insert(s, x) ==
  LET after == {i \in 1..Len(s) : KeyLess(x, s[i])}
      p     == IF after = {} THEN Len(s) + 1
               ELSE CHOOSE i \in after : \A j \in after : i <= j
  IN  SubSeq(s, 1, p - 1) \o <<x>> \o SubSeq(s, p, Len(s))

\* Variant: the list is left in insertion order
SortContacts_skipped(s) == s

RECURSIVE SortContacts(_)
\* list.sort(key=lambda c: (c.apellido, c.nombre)): a stable sort
SortContacts(s) ==
  IF s = <<>> THEN <<>>
  ELSE Insert(SortContacts(Pop(s)), s[Len(s)])

\* The content update_json leaves in contacts.json
update_json(cs) ==
  [exists |-> TRUE,
   data   |-> [i \in 1..Len(cs) |->
                 [nombre |-> cs[i].nombre, apellido |-> cs[i].apellido,
                  email |-> cs[i].email, tel |-> cs[i].tel]]]

\* f"{c.apellido},{c.nombre}"
FindLine(c) == c.apellido \o <<",">> \o c.nombre

\* f"{c.apellido},{c.nombre} <{c.email}> {c.tel}\n"
ListLine(c) ==
  c.apellido \o <<",">> \o c.nombre \o <<" ", "<">> \o c.email
    \o <<">", " ">> \o Str(c.tel) \o <<"\n">>

\* texto in c.nombre or texto in c.apellido or texto in c.email
FindMatch(c, texto) ==
  \/ Contains(texto, c.nombre)
  \/ Contains(texto, c.apellido)
  \/ Contains(texto, c.email)

RECURSIVE FindResults(_, _)
\* [f"{c.apellido},{c.nombre}" for c in cs if FindMatch(c, texto)]
FindResults(cs, texto) ==
  IF cs = <<>> THEN <<>>
  ELSE LET rest == FindResults(Pop(cs), texto)
           c    == cs[Len(cs)]
       IN  IF FindMatch(c, texto) THEN Append(rest, FindLine(c)) ELSE rest

\* `if domain:` is taken for a str that is not empty, not for None or ""
Truthy(domain) == domain # None /\ domain[1] # <<>>

\* Variant: the domain is compared as given, not lowercased
DomainMatch_as_given(c, domain) == EndsWith(c.email, <<"@">> \o domain[1])

\* c.email.endswith(f"@{domain}") with domain = domain.lower()
DomainMatch(c, domain) == EndsWith(c.email, <<"@">> \o Lower(domain[1]))

RECURSIVE ListResults(_, _)
\* the two list comprehensions of list_contacts
ListResults(cs, domain) ==
  IF cs = <<>> THEN <<>>
  ELSE LET rest == ListResults(Pop(cs), domain)
           c    == cs[Len(cs)]
       IN  IF Truthy(domain)
           THEN IF DomainMatch(c, domain) THEN Append(rest, ListLine(c)) ELSE rest
           ELSE Append(rest, ListLine(c))

Init ==
  /\ contacts = <<>>
  /\ snapshot = [exists |-> FALSE, data |-> <<>>]
  /\ wrote = FALSE
  /\ lastOp = "init"
  /\ lastArg = <<>>
  /\ lastRet = "None"
  /\ lastOut = <<>>
  /\ prevList = [valid |-> FALSE, domain |-> None, out |-> <<>>]

add(nombre, apellido, email, tel) ==
  LET appended == Append(contacts, Contact(nombre, apellido, email, tel))
  IN  /\ Len(contacts) < MaxContacts \/ check_emails(appended)
      /\ IF check_emails(appended)
         THEN /\ contacts' = Pop(appended)
              /\ snapshot' = snapshot
              /\ wrote' = FALSE
              /\ lastRet' = "ERROR:DUP"
         ELSE /\ contacts' = SortContacts(appended)
              /\ snapshot' = update_json(SortContacts(appended))
              /\ wrote' = TRUE
              /\ lastRet' = "None"
      /\ lastOp' = "add"
      /\ lastArg' = <<nombre, apellido, email, tel>>
      /\ lastOut' = <<>>
      /\ prevList' = [valid |-> FALSE, domain |-> None, out |-> <<>>]

del_email(email) ==
  /\ IF \E i \in 1..Len(contacts) : contacts[i].email = email
     THEN /\ contacts' = Pop(contacts)
          /\ snapshot' = snapshot
          /\ wrote' = FALSE
          /\ lastRet' = "None"
     ELSE /\ contacts' = contacts
          /\ snapshot' = update_json(contacts)
          /\ wrote' = TRUE
          /\ lastRet' = "ERROR:NOTFOUND"
  /\ lastOp' = "del_email"
  /\ lastArg' = <<email>>
  /\ lastOut' = <<>>
  /\ prevList' = [valid |-> FALSE, domain |-> None, out |-> <<>>]

find(texto) ==
  /\ lastOut' = FindResults(contacts, texto)
  /\ lastOp' = "find"
  /\ lastArg' = <<texto>>
  /\ lastRet' = "list"
  /\ wrote' = FALSE
  /\ UNCHANGED <<contacts, snapshot, prevList>>

\* Variant: the filtered contacts replace the book
list_contacts_filtering(domain) ==
  LET Keep(c) == Truthy(domain) => DomainMatch(c, domain)
  IN  /\ lastOut' = ListResults(contacts, domain)
      /\ lastOp' = "list_contacts"
      /\ lastArg' = <<domain>>
      /\ lastRet' = "list"
      /\ wrote' = FALSE
      /\ prevList' = [valid |-> TRUE, domain |-> domain,
                      out |-> ListResults(contacts, domain)]
      /\ contacts' = SelectSeq(contacts, Keep)
      /\ snapshot' = snapshot

list_contacts(domain) ==
  /\ lastOut' = ListResults(contacts, domain)
  /\ lastOp' = "list_contacts"
  /\ lastArg' = <<domain>>
  /\ lastRet' = "list"
  /\ wrote' = FALSE
  /\ prevList' = [valid |-> TRUE, domain |-> domain,
                  out |-> ListResults(contacts, domain)]
  /\ UNCHANGED <<contacts, snapshot>>

Next ==
  \/ \E n \in Nombres, a \in Apellidos, e \in Emails, t \in Tels : add(n, a, e, t)
  \/ \E e \in Emails : del_email(e)
  \/ \E t \in Textos : find(t)
  \/ \E d \in Domains : list_contacts(d)

Spec == Init /\ [][Next]_vars

----------------------------------------------------------------------------
(* Vocabulary of the properties                                            *)

Idx(cs) == 1..Len(cs)

HasEmail(cs, e) == \E i \in Idx(cs) : cs[i].email = e

\* The position of the contact with email e in cs
PosOf(cs, e) == CHOOSE i \in Idx(cs) : cs[i].email = e

SameKey(c, d) == c.apellido = d.apellido /\ c.nombre = d.nombre

\* Non-decreasing by (apellido, nombre)
Sorted(cs) == \A i, j \in Idx(cs) : i < j => ~KeyLess(cs[j], cs[i])

\* The k-th smallest element of a finite set of integers
RECURSIVE Nth(_, _)
Nth(S, k) ==
  LET m == CHOOSE x \in S : \A y \in S : x <= y
  IN  IF k = 1 THEN m ELSE Nth(S \ {m}, k - 1)

\* The text of a list line, without its line terminator
LineText(c) ==
  c.apellido \o <<",">> \o c.nombre \o <<" ", "<">> \o c.email
    \o <<">", " ">> \o Str(c.tel)

\* out holds, in the order of cs, Line(c) of exactly the contacts at indices S
Selects(out, cs, S, Line(_)) ==
  /\ Len(out) = Cardinality(S)
  /\ \A k \in 1..Len(out) : out[k] = Line(cs[Nth(S, k)])

----------------------------------------------------------------------------
(* C1  Uniqueness: in every state reached from the empty book by add and   *)
(* del_email calls, no two contacts have the same stored email.            *)
C1_UniqueEmails ==
  \A i, j \in Idx(contacts) : i # j => contacts[i].email # contacts[j].email

\* A duplicate add has just been refused on a book of two or more contacts.
C1_Witness ==
  /\ lastOp = "add" /\ lastRet = "ERROR:DUP"
  /\ Len(contacts) >= 2

(* C2  Rollback on duplicate: an add whose email equals, ignoring case, a  *)
(* stored email returns ERROR:DUP and leaves contacts and the snapshot as  *)
(* they were, without writing; an add whose lowercased email is not stored *)
(* never returns ERROR:DUP.                                                *)
C2_Rollback ==
  [][ lastOp' = "add" =>
        IF HasEmail(contacts, Lower(lastArg'[3]))
        THEN /\ lastRet' = "ERROR:DUP"
             /\ contacts' = contacts
             /\ snapshot' = snapshot
             /\ ~wrote'
        ELSE lastRet' # "ERROR:DUP" ]_vars

\* An add with an email in upper case was refused because the same email
\* is stored in lower case, on a book of two or more contacts.
C2_Witness ==
  /\ lastOp = "add" /\ lastRet = "ERROR:DUP"
  /\ lastArg[3] # Lower(lastArg[3])
  /\ HasEmail(contacts, Lower(lastArg[3]))
  /\ Len(contacts) >= 2
  /\ snapshot.exists

(* C3  Sort after add: right after a successful add the book is ordered    *)
(* non-decreasingly by (apellido, nombre) of the lowercased values, the    *)
(* contacts stored before keep their relative order, and the new contact   *)
(* stands after every stored contact with the same key.                    *)
C3_SortedStable ==
  [][ (lastOp' = "add" /\ lastRet' = "None") =>
        LET e == Lower(lastArg'[3]) IN
        /\ Len(contacts') = Len(contacts) + 1
        /\ HasEmail(contacts', e)
        /\ contacts'[PosOf(contacts', e)].apellido = Lower(lastArg'[2])
        /\ contacts'[PosOf(contacts', e)].nombre = Lower(lastArg'[1])
        /\ Sorted(contacts')
        /\ \A i \in Idx(contacts) : HasEmail(contacts', contacts[i].email)
        /\ \A i, j \in Idx(contacts) :
             (i < j /\ SameKey(contacts[i], contacts[j])) =>
               PosOf(contacts', contacts[i].email) < PosOf(contacts', contacts[j].email)
        /\ \A i \in Idx(contacts) :
             SameKey(contacts[i], contacts'[PosOf(contacts', e)]) =>
               PosOf(contacts', contacts[i].email) < PosOf(contacts', e) ]_vars

\* A successful add left three contacts that all have the same key, the new
\* one last, and its apellido was given in upper case.
C3_Witness ==
  /\ lastOp = "add" /\ lastRet = "None"
  /\ Len(contacts) = 3
  /\ SameKey(contacts[1], contacts[2]) /\ SameKey(contacts[2], contacts[3])
  /\ contacts[3].email = Lower(lastArg[3])
  /\ lastArg[2] # Lower(lastArg[2])

(* C4  Delete removes the matched contact: del_email(e) for a stored e     *)
(* returns None, afterwards no contact has email e, and every other        *)
(* contact is still there, unchanged and in the same relative order.       *)
C4_DeleteRemovesMatch ==
  [][ (lastOp' = "del_email" /\ HasEmail(contacts, lastArg'[1])) =>
        LET Other(c) == c.email # lastArg'[1] IN
        /\ lastRet' = "None"
        /\ ~HasEmail(contacts', lastArg'[1])
        /\ contacts' = SelectSeq(contacts, Other) ]_vars

(* C5  Persist after every successful mutation: after an add or a          *)
(* del_email that returned None, the snapshot holds the four fields of     *)
(* every contact of the book, in the book's order.                         *)
C5_SnapshotCurrent ==
  (lastOp \in {"add", "del_email"} /\ lastRet = "None") =>
    /\ snapshot.exists
    /\ Len(snapshot.data) = Len(contacts)
    /\ \A i \in Idx(contacts) :
         /\ snapshot.data[i].nombre = contacts[i].nombre
         /\ snapshot.data[i].apellido = contacts[i].apellido
         /\ snapshot.data[i].email = contacts[i].email
         /\ snapshot.data[i].tel = contacts[i].tel

(* C6  Delete of an absent email: del_email(e) for an e that equals no     *)
(* stored email returns ERROR:NOTFOUND, leaves contacts unchanged and      *)
(* writes nothing, so the snapshot is the same before and after.           *)
C6_NotFoundNoEffect ==
  [][ (lastOp' = "del_email" /\ ~HasEmail(contacts, lastArg'[1])) =>
        /\ lastRet' = "ERROR:NOTFOUND"
        /\ contacts' = contacts
        /\ ~wrote'
        /\ snapshot' = snapshot ]_vars

(* C7  Case-insensitive search: find(texto) returns, in the book's order,  *)
(* the line apellido,nombre of exactly the contacts whose nombre, apellido *)
(* or email contains texto when letter case is ignored.                    *)
C7_FindIgnoresCase ==
  lastOp = "find" =>
    Selects(lastOut, contacts,
            {i \in Idx(contacts) :
               \/ Contains(Lower(lastArg[1]), Lower(contacts[i].nombre))
               \/ Contains(Lower(lastArg[1]), Lower(contacts[i].apellido))
               \/ Contains(Lower(lastArg[1]), Lower(contacts[i].email))},
            FindLine)

(* C8  Domain filter: list_contacts(d) for a non-empty d returns, in the   *)
(* book's order, the line `apellido,nombre <email> tel` (each with its     *)
(* line terminator) of exactly the contacts whose email ends with "@"      *)
(* followed by the lowercased d; without a domain it returns the line of   *)
(* every contact.                                                          *)
C8_DomainFilter ==
  lastOp = "list_contacts" =>
    LET d       == lastArg[1]
        Line(c) == LineText(c) \o <<"\n">>
    IN  /\ (d # None /\ d[1] # <<>>) =>
             Selects(lastOut, contacts,
                     {i \in Idx(contacts) :
                        \E k \in 1..Len(contacts[i].email) :
                           /\ contacts[i].email[k] = "@"
                           /\ SubSeq(contacts[i].email, k + 1,
                                     Len(contacts[i].email)) = Lower(d[1])},
                     Line)
        /\ d = None => Selects(lastOut, contacts, Idx(contacts), Line)

\* A listing with a domain in upper case kept some contacts of a book of
\* three and dropped others, one of them with a domain that only ends alike.
C8_Witness ==
  /\ lastOp = "list_contacts"
  /\ lastArg[1] = << <<"X">> >>
  /\ Len(contacts) = 3
  /\ Len(lastOut) = 1
  /\ HasEmail(contacts, <<"b","@","y","x">>)

(* C9  Queries are read-only: find and list_contacts leave contacts and    *)
(* the snapshot unchanged and write nothing, and a list call returns what  *)
(* the last list call with the same argument returned when no add or       *)
(* del_email came in between.                                              *)
C9_QueriesReadOnly ==
  [][ /\ lastOp' \in {"find", "list_contacts"} =>
           /\ contacts' = contacts
           /\ snapshot' = snapshot
           /\ ~wrote'
      /\ (lastOp' = "list_contacts" /\ prevList.valid
             /\ prevList.domain = lastArg'[1]) =>
           lastOut' = prevList.out ]_vars

\* A find has run after a listing of a book of two or more contacts whose
\* snapshot lags behind (a delete went unsaved), and the listing is kept.
C9_Witness ==
  /\ lastOp = "find"
  /\ prevList.valid /\ Len(prevList.out) >= 2
  /\ snapshot.exists /\ Len(snapshot.data) # Len(contacts)

(* C10  The book is sorted in every reachable state: after any sequence of *)
(* add and del_email calls contacts is ordered non-decreasingly by         *)
(* (apellido, nombre).                                                     *)
C10_AlwaysSorted == Sorted(contacts)

\* A delete has removed a contact and left two or more with different keys.
C10_Witness ==
  /\ lastOp = "del_email" /\ lastRet = "None"
  /\ Len(contacts) >= 2
  /\ ~SameKey(contacts[1], contacts[Len(contacts)])

====
